---------------------------- MODULE Spec2Model ----------------------------
(***************************************************************************)
(* Model of easycpp/stubs.py: generate_stubs, _get_function_annotations    *)
(* and _get_name.                                                          *)
(*                                                                         *)
(* Text.  A Python str is modelled as a sequence of tokens.  A token is    *)
(* either a word (a maximal run of \w characters, e.g. "int", "values",    *)
(* "10") or one single other character (" ", "*", "(", ";", ...).  The     *)
(* emitted text also uses the lumps "->" and "...".  Because words are     *)
(* maximal, [\w\d_]+ followed or preceded by a non-word pattern matches    *)
(* exactly one word token, so the regular expressions below are matched    *)
(* token by token.  The only place where Python would look inside a word   *)
(* is the literal `class` of _CLASS_REGEX and _GET_CLASSES_REGEX; the      *)
(* vocabulary of the model has no word that contains "class" other than    *)
(* the keyword itself.  File paths are sequences of single characters.     *)
(*                                                                         *)
(* Outside the model: open() failing on the source or the stub path, and   *)
(* subprocess.run failing to launch the command.                           *)
(***************************************************************************)
EXTENDS Naturals, Sequences, FiniteSets, TLC

VARIABLES
    pc,             \* position in generate_stubs: start, scan, format, done, raised
    path,           \* argument path
    format_command, \* argument format_command (Optional[str])
    HAS_BLACK,      \* module flag set at import
    fs,             \* the file system: path -> file content
    stubs_path,     \* local stubs_path
    code,           \* local code (the text read from path)
    stubs_string,   \* local stubs_string (output buffer)
    current_level,  \* local current_level
    brackets,       \* local brackets = [opened, closed]
    classes,        \* local classes
    last_match,     \* local last_match
    i,              \* index of the next line of code.split('\n')
    result,         \* the value returned
    spawned,        \* the argv handed to subprocess.run, if any
    exc,            \* the exception that left generate_stubs, if any
    arg_string,     \* _get_name: argument string
    arg_classes,    \* _get_name: argument classes
    ret             \* _get_name: returned value

vars == <<pc, path, format_command, HAS_BLACK, fs, stubs_path, code, stubs_string,
          current_level, brackets, classes, last_match, i, result, spawned, exc,
          arg_string, arg_classes, ret>>

-----------------------------------------------------------------------------
(* Bounds *)

MaxLines == 3
MaxEnvLines == 1
MaxClasses == 2

-----------------------------------------------------------------------------
(* Character classes of the regular expressions *)

IsSpace(t) == t \in {" ", "\t"}
IsSpaceNL(t) == t \in {" ", "\t", "\n"}
IsSigil(t) == t \in {"*", "&"}
IsDotNL(t) == t \in {".", "\n"}
NonWord == {" ", "\t", "\n", "*", "&", "(", ")", ",", "[", "]", "{", "}", "=", ";",
            ":", ".", "/", "->", "..."}
IsWord(t) == t \notin NonWord
InParams(t) == IsWord(t) \/ IsSpace(t) \/ t \in {"*", "[", "]", ","}
InArrayTail(t) == IsWord(t) \/ IsSpace(t) \/ t \in {"*", "{", "}", ","}

\* membership of a token in a named character class
In(t, P) ==
    CASE P = "IsSpace" -> IsSpace(t)
      [] P = "IsSpaceNL" -> IsSpaceNL(t)
      [] P = "IsSigil" -> IsSigil(t)
      [] P = "IsDotNL" -> IsDotNL(t)
      [] P = "InParams" -> InParams(t)
      [] P = "IsStar" -> t = "*"

(* Generic text helpers *)

Min(S) == CHOOSE x \in S : \A y \in S : x <= y
WordAt(s, k) == k >= 1 /\ k <= Len(s) /\ IsWord(s[k])
TokAt(s, k, t) == k >= 1 /\ k <= Len(s) /\ s[k] = t
HasTok(s, t) == \E k \in 1..Len(s) : s[k] = t
\* greedy X*: the first index from k on whose token is not in the class
Run(s, k, P) ==
    CHOOSE j \in k..(Len(s) + 1) :
        /\ \A m \in k..(j - 1) : In(s[m], P)
        /\ (j = Len(s) + 1 \/ ~In(s[j], P))
Spaces(n) == [k \in 1..n |-> " "]

RECURSIVE Join(_, _)
Join(parts, sep) ==
    IF parts = <<>> THEN <<>>
    ELSE IF Len(parts) = 1 THEN parts[1]
    ELSE parts[1] \o <<sep>> \o Join(Tail(parts), sep)

\* str.split(sep) for a one-character separator: Len = occurrences + 1
RECURSIVE Split(_, _)
Split(s, sep) ==
    IF ~HasTok(s, sep) THEN <<s>>
    ELSE LET k == Min({m \in 1..Len(s) : s[m] = sep})
         IN <<SubSeq(s, 1, k - 1)>> \o Split(SubSeq(s, k + 1, Len(s)), sep)

\* str.replace(old, new), old a one- or two-token text, left to right, non-overlapping
RECURSIVE Replace(_, _, _)
Replace(s, old, new) ==
    IF Len(s) < Len(old) THEN s
    ELSE IF SubSeq(s, 1, Len(old)) = old
         THEN new \o Replace(SubSeq(s, Len(old) + 1, Len(s)), old, new)
         ELSE <<s[1]>> \o Replace(Tail(s), old, new)

\* str.strip(): leading and trailing whitespace removed
Strip(s) ==
    LET K == {k \in 1..Len(s) : ~IsSpaceNL(s[k])}
    IN IF K = {} THEN <<>>
       ELSE SubSeq(s, Min(K), CHOOSE k \in K : \A m \in K : m <= k)

\* str.lstrip('*')
LStripStar(s) == SubSeq(s, Run(s, 1, "IsStar"), Len(s))

\* _POINTER_OR_ADDRESS.sub('', s)
_POINTER_OR_ADDRESS_sub(s) == SelectSeq(s, LAMBDA t : ~IsSigil(t))

-----------------------------------------------------------------------------
(* The regular expressions, matched at a given index and searched leftmost *)

NoMatch == [ok |-> FALSE, g1 |-> <<>>, g2 |-> <<>>, g3 |-> <<>>]

\* _FUNCTION_REGEX = ([\w\d_]+)\s+([\w\d_]+)(\([\w\d*\s\[\],]+\))
FunctionAt(s, k) ==
    LET b == Run(s, k + 1, "IsSpace")
        e == Run(s, b + 2, "InParams")
    IN /\ WordAt(s, k)
       /\ b > k + 1
       /\ WordAt(s, b)
       /\ TokAt(s, b + 1, "(")
       /\ e > b + 2
       /\ TokAt(s, e, ")")

_FUNCTION_REGEX_search(s) ==
    LET K == {k \in 1..Len(s) : FunctionAt(s, k)}
    IN IF K = {} THEN NoMatch
       ELSE LET k == Min(K)
                b == Run(s, k + 1, "IsSpace")
                e == Run(s, b + 2, "InParams")
            IN [ok |-> TRUE, g1 |-> <<s[k]>>, g2 |-> <<s[b]>>, g3 |-> SubSeq(s, b + 1, e)]

\* _CLASS_REGEX = class[\s\n\t]*([\w\d_]+)
ClassAt(s, k) == TokAt(s, k, "class") /\ WordAt(s, Run(s, k + 1, "IsSpaceNL"))

_CLASS_REGEX_search(s) ==
    LET K == {k \in 1..Len(s) : ClassAt(s, k)}
    IN IF K = {} THEN NoMatch
       ELSE [ok |-> TRUE, g1 |-> <<s[Run(s, Min(K) + 1, "IsSpaceNL")]>>, g2 |-> <<>>, g3 |-> <<>>]

\* _VAR_REGEX = ([\w\d_]+)\s+[*&]*([\w\d_]+)\s*=?\s*[\w\d_]*;
VarAt(s, k) ==
    LET b == Run(s, k + 1, "IsSpace")
        c == Run(s, b, "IsSigil")
        d == Run(s, c + 1, "IsSpace")
        e == IF TokAt(s, d, "=") THEN d + 1 ELSE d
        f == Run(s, e, "IsSpace")
        g == IF WordAt(s, f) THEN f + 1 ELSE f
    IN /\ WordAt(s, k)
       /\ b > k + 1
       /\ WordAt(s, c)
       /\ TokAt(s, g, ";")

_VAR_REGEX_search(s) ==
    LET K == {k \in 1..Len(s) : VarAt(s, k)}
    IN IF K = {} THEN NoMatch
       ELSE LET k == Min(K)
                c == Run(s, Run(s, k + 1, "IsSpace"), "IsSigil")
            IN [ok |-> TRUE, g1 |-> <<s[k]>>, g2 |-> <<s[c]>>, g3 |-> <<>>]

\* the tail \s*=?[\s*{}\w\d_,]+; of _ARRAY_REGEX, matched at index p
ArrayTailAt(s, p) ==
    \E a \in p..Len(s) :
        \E a2 \in {a} \cup (IF s[a] = "=" THEN {a + 1} ELSE {}) :
            \E b \in a2..(Len(s) - 1) :
                /\ \A m \in p..(a - 1) : IsSpace(s[m])
                /\ \A m \in a2..b : InArrayTail(s[m])
                /\ s[b + 1] = ";"

\* _ARRAY_REGEX = ([\w\d_]+)\s+[*&]*([\w\d_]+)[\s\t\n]*\[[\s\t]*.*[\s\t]*]\s*=?[\s*{}\w\d_,]+;
ArrayAt(s, k) ==
    LET b == Run(s, k + 1, "IsSpace")
        c == Run(s, b, "IsSigil")
        d == Run(s, c + 1, "IsSpaceNL")
    IN /\ WordAt(s, k)
       /\ b > k + 1
       /\ WordAt(s, c)
       /\ TokAt(s, d, "[")
       /\ \E r \in (d + 1)..Len(s) : s[r] = "]" /\ ArrayTailAt(s, r + 1)

_ARRAY_REGEX_search(s) ==
    LET K == {k \in 1..Len(s) : ArrayAt(s, k)}
    IN IF K = {} THEN NoMatch
       ELSE LET k == Min(K)
                c == Run(s, Run(s, k + 1, "IsSpace"), "IsSigil")
            IN [ok |-> TRUE, g1 |-> <<s[k]>>, g2 |-> <<s[c]>>, g3 |-> <<>>]

\* _GET_CLASSES_REGEX = class[\s\n\t]*([\w\d_]+)[\s\n\t]*\{[.\n]*
GetClassesAt(s, k) ==
    LET b == Run(s, k + 1, "IsSpaceNL")
    IN /\ TokAt(s, k, "class")
       /\ WordAt(s, b)
       /\ TokAt(s, Run(s, b + 1, "IsSpaceNL"), "{")

\* _GET_CLASSES_REGEX.findall(s), from index k on: non-overlapping, left to right
RECURSIVE FindallFrom(_, _)
FindallFrom(s, k) ==
    IF k > Len(s) THEN <<>>
    ELSE IF GetClassesAt(s, k)
         THEN LET b == Run(s, k + 1, "IsSpaceNL")
                  c == Run(s, b + 1, "IsSpaceNL")
              IN <<(<<s[b]>>)>> \o FindallFrom(s, Run(s, c + 1, "IsDotNL"))
         ELSE FindallFrom(s, k + 1)

_GET_CLASSES_REGEX_findall(s) == FindallFrom(s, 1)

-----------------------------------------------------------------------------
(* Python values *)

None == [some |-> FALSE, val |-> <<>>]
Some(v) == [some |-> TRUE, val |-> v]

PyNone == [tag |-> "NoneType", v |-> <<>>]
PyType(n) == [tag |-> "type", v |-> <<n>>]
PyStr(s) == [tag |-> "str", v |-> s]
_sentinel == [tag |-> "object", v |-> <<>>]

\* str(x)
str(x) == IF x.tag = "NoneType" THEN <<"None">> ELSE x.v

_CTYPES_CONVERSIONS ==
    [k \in {"void", "bool", "char", "wchar_t", "short", "int", "long", "__int64",
            "size_t", "ssize_t", "float", "double"} |->
        CASE k = "void" -> PyNone
          [] k = "bool" -> PyType("bool")
          [] k \in {"char", "wchar_t"} -> PyType("str")
          [] k \in {"short", "int", "long", "__int64", "size_t", "ssize_t"} -> PyType("int")
          [] k \in {"float", "double"} -> PyType("float")]

_BASE_STRING ==
    <<"import abc\nimport typing\n\nT = typing.TypeVar('T')\n\n\nclass _MutableCollection(typing.Collection[T], abc.ABC):  # this is made to type arrays\n    def __getitem__(self, name: str) -> T: ...\n    def __setitem__(self, index: int, value: T) -> None: ...\n    def __delitem__(self, index: int) -> None: ...\n    \n# typing for C++ below\n\n">>

-----------------------------------------------------------------------------
(* _get_name *)

\* string in classes
InList(string, list) == \E k \in 1..Len(list) : list[k] = string

\* _CTYPES_CONVERSIONS.get(string, _sentinel): the keys are one-word texts
DictGet(string) ==
    IF Len(string) = 1 /\ string[1] \in DOMAIN _CTYPES_CONVERSIONS
    THEN _CTYPES_CONVERSIONS[string[1]]
    ELSE _sentinel

\* the class list consulted before the primitive table
GetNameClassFirst(string, cls) ==
    LET type_0 == IF InList(string, cls) THEN PyStr(string) ELSE DictGet(string)
        type_1 == IF type_0 = _sentinel THEN PyStr(<<"typing", ".", "Any">>) ELSE type_0
        type_2 == IF type_1.tag = "type" THEN PyStr(type_1.v) ELSE type_1
    IN str(type_2)

_get_name(string, cls) ==
    LET type_0 == DictGet(string)
        type_1 == IF type_0 = _sentinel
                  THEN IF InList(string, cls)
                       THEN PyStr(string)
                       ELSE PyStr(<<"typing", ".", "Any">>)
                  ELSE type_0
        type_2 == IF type_1.tag = "type" THEN PyStr(type_1.v) ELSE type_1
    IN str(type_2)

-----------------------------------------------------------------------------
(* _get_function_annotations *)

\* the for loop over parameters; raised = the tuple unpacking raised ValueError
RECURSIVE ParameterLoop(_, _, _)
ParameterLoop(parameters, cls, signature) ==
    IF parameters = <<>> THEN [raised |-> FALSE, value |-> signature]
    ELSE LET parameter == Replace(Strip(parameters[1]), <<" ", " ">>, <<" ">>)
             pieces == Split(parameter, " ")
         IN IF Len(pieces) # 2 THEN [raised |-> TRUE, value |-> <<>>]
            ELSE LET parameter_type == _get_name(_POINTER_OR_ADDRESS_sub(pieces[1]), cls)
                     parameter_name == _POINTER_OR_ADDRESS_sub(pieces[2])
                 IN ParameterLoop(Tail(parameters), cls,
                        signature \o parameter_name \o <<":", " ">> \o parameter_type \o <<",">>)

_get_function_annotations(function_match, cls, level) ==
    LET name == function_match.g2
        signature == Spaces(level) \o <<"def", " ">> \o name \o <<"(">>
        parameters == Split(Replace(Replace(function_match.g3, <<"(">>, <<>>), <<")">>, <<>>), ",")
        loop == ParameterLoop(parameters, cls, signature)
        return_type_string ==
            Replace(Replace(LStripStar(function_match.g1), <<"unsigned", " ">>, <<>>),
                    <<"long", " ">>, <<>>)
        return_type == _get_name(return_type_string, cls)
    IN IF loop.raised THEN loop
       ELSE [raised |-> FALSE,
             value |-> loop.value \o <<")", " ", "->", " ">> \o return_type
                       \o <<":", " ", "...", "\n", "\n">>]

-----------------------------------------------------------------------------
(* Paths and the format command *)

\* _FILE_SUFFIX_REGEX.sub('.pyi', p), _FILE_SUFFIX_REGEX = \.c(pp)? ; p a sequence of characters
RECURSIVE _FILE_SUFFIX_REGEX_sub(_)
_FILE_SUFFIX_REGEX_sub(p) ==
    IF p = <<>> THEN <<>>
    ELSE IF Len(p) >= 2 /\ p[1] = "." /\ p[2] = "c"
         THEN LET n == IF Len(p) >= 4 /\ p[3] = "p" /\ p[4] = "p" THEN 4 ELSE 2
              IN <<".", "p", "y", "i">> \o _FILE_SUFFIX_REGEX_sub(SubSeq(p, n + 1, Len(p)))
         ELSE <<p[1]>> \o _FILE_SUFFIX_REGEX_sub(Tail(p))

\* template.format(name=name): the replacement fields are the tokens "{name}",
\* "{other}" (a named field that is not supplied) and "{}" (a positional field)
RECURSIVE StrFormat(_, _)
StrFormat(template, name) ==
    IF template = <<>> THEN [raised |-> "", value |-> <<>>]
    ELSE IF template[1] = "{other}" THEN [raised |-> "KeyError", value |-> <<>>]
    ELSE IF template[1] = "{}" THEN [raised |-> "IndexError", value |-> <<>>]
    ELSE LET rest == StrFormat(Tail(template), name)
         IN [raised |-> rest.raised,
             value |-> IF rest.raised # "" THEN <<>>
                       ELSE (IF template[1] = "{name}" THEN name ELSE <<template[1]>>)
                            \o rest.value]

-----------------------------------------------------------------------------
(* The inputs: source lines, paths and format commands *)

L_class == <<"class", " ", "Human", " ", "{">>
L_add == <<"int", " ", "add", "(", "int", " ", "a", ",", " ", "int", " ", "b", ")">>
L_hello == <<"void", " ", "hello", "(", "Human", " ", "*", "human", ")">>
L_close == <<"}">>
L_var == <<"int", " ", "x", ";">>
L_classvar == <<"Human", " ", "*", "h", ";">>
L_array_init == <<"int", " ", "values", "[", "10", "]", " ", "=", " ", "{", "0", "}", ";">>
L_array == <<"int", " ", "values", "[", "10", "]", ";">>
L_classarray == <<"Human", " ", "team", "[", "2", "]", " ", "=", " ", "{", "}", ";">>
L_return == <<" ", " ", " ", " ", "return", " ", "x", ";">>
L_void == <<"int", " ", "f", "(", "void", ")">>
L_fnvar == <<"Human", " ", "f", "(", "int", " ", "a", ")", " ", "{", " ", "int", " ", "x", ";">>

L_vararray == <<"int", " ", "values", "[", "10", "]", " ", "=", " ", "{", "0", "}", ";", " ",
                "int", " ", "b", ";">>
L_spaced == <<"void", " ", "set", "(", "Human", "*", " ", " ", "h", ")">>

Catalogue == {L_class, L_add, L_hello, L_close, L_var, L_classvar, L_array_init, L_array,
              L_classarray, L_return, L_void, L_fnvar, L_vararray, L_spaced}

\* the source texts of at most n lines
Sources(n) == UNION {[1..m -> Catalogue] : m \in 0..n}

P_cpp == <<"a", ".", "c", "p", "p">>
P_c == <<"a", ".", "c">>
P_h == <<"a", ".", "h">>
P_hpp == <<"a", ".", "h", "p", "p">>
Paths == {P_cpp, P_c, P_h, P_hpp}
Files == Paths \cup {_FILE_SUFFIX_REGEX_sub(p) : p \in Paths}

FormatCommands ==
    {None,
     Some(<<"black">>),
     Some(<<"black", " ", "{name}">>),
     Some(<<"black", " ", "{other}">>),
     Some(<<"black", " ", "{}">>),
     Some(<<"black", " ", "{other}", " ", "{name}">>)}

TypeStrings ==
    {<<k>> : k \in DOMAIN _CTYPES_CONVERSIONS}
    \cup {<<"Human">>, <<"Dog">>, <<"unsigned">>, <<"Human", "[", "]">>, <<>>}
ClassNames == {<<"Human">>, <<"Dog">>, <<"int">>, <<"char">>}
ClassLists == UNION {[1..m -> ClassNames] : m \in 0..MaxClasses}

-----------------------------------------------------------------------------
(* generate_stubs *)

Unset == [kind |-> "unset", args |-> <<>>]
ReturnNone == [kind |-> "None", args |-> <<>>]
CompletedProcess(argv) == [kind |-> "CompletedProcess", args |-> argv]

\* code.split('\n')
SourceLines(c) == Split(c, "\n")

Start(src, p, fc, hb) ==
    /\ pc = "start"
    /\ path = p
    /\ format_command = fc
    /\ HAS_BLACK = hb
    /\ fs = [q \in Files |-> IF q = p THEN Some(Join(src, "\n")) ELSE None]
    /\ stubs_path = <<>>
    /\ code = <<>>
    /\ stubs_string = <<>>
    /\ current_level = 0
    /\ brackets = <<0, 0>>
    /\ classes = <<>>
    /\ last_match = ""
    /\ i = 0
    /\ result = Unset
    /\ spawned = None
    /\ exc = ""
    /\ arg_string = <<>>
    /\ arg_classes = <<>>
    /\ ret = <<>>

Init ==
    \/ \E src \in Sources(MaxLines) : Start(src, P_cpp, None, FALSE)
    \/ \E src \in Sources(MaxEnvLines), p \in Paths, fc \in FormatCommands, hb \in BOOLEAN :
           Start(src, p, fc, hb)

\* the class pre-scan run on the first line only
GetClassesFirstLine(c) == _GET_CLASSES_REGEX_findall(SourceLines(c)[1])

\* line 117
GetClasses(c) == _GET_CLASSES_REGEX_findall(c)

\* lines 108-118: the stub path, the read of the source, the locals, the class pre-scan
ReadSource ==
    /\ pc = "start"
    /\ stubs_path' = _FILE_SUFFIX_REGEX_sub(path)
    /\ code' = fs[path].val
    /\ stubs_string' = _BASE_STRING
    /\ current_level' = 0
    /\ brackets' = <<0, 0>>
    /\ classes' = GetClasses(fs[path].val)
    /\ last_match' = ""
    /\ i' = 1
    /\ pc' = "scan"
    /\ UNCHANGED <<path, format_command, HAS_BLACK, fs, result, spawned, exc,
                   arg_string, arg_classes, ret>>

\* lines 126-129
CountBrackets(line, brk) ==
    <<IF HasTok(line, "{") THEN brk[1] + 1 ELSE brk[1],
      IF HasTok(line, "}") THEN brk[2] + 1 ELSE brk[2]>>

\* lines 131-133
ClassEmission(class_match, level) ==
    Spaces(level) \o <<"class", " ">> \o class_match.g1 \o <<":", "\n">>
    \o Spaces(level + 4) \o <<"...", "\n">>

\* line 140 without the test on `return`
VarGuardNoReturnTest(var_match, brk, last) ==
    var_match.ok /\ (brk[1] = brk[2] \/ last # "function")

\* line 140 with the test on the second capture
VarGuardNameTest(var_match, brk, last) ==
    /\ var_match.ok
    /\ var_match.g2 # <<"return">>
    /\ (brk[1] = brk[2] \/ last # "function")

\* line 140
VarGuard(var_match, brk, last) ==
    /\ var_match.ok
    /\ var_match.g1 # <<"return">>
    /\ (brk[1] = brk[2] \/ last # "function")

\* lines 141-142
VarEmission(var_match, cls, level) ==
    Spaces(level) \o var_match.g2 \o <<":", " ">> \o _get_name(var_match.g1, cls) \o <<"\n">>

\* lines 146-148
ArrayEmission(array_match, cls, level) ==
    Spaces(level) \o array_match.g2 \o <<":", " ", "_MutableCollection", "[">>
    \o _get_name(array_match.g1, cls) \o <<"]", "\n">>

\* lines 151-154
NextLevel(line, function_match, level) ==
    LET up == IF HasTok(line, "{") /\ ~function_match.ok THEN level + 4 ELSE level
    IN IF HasTok(line, "}") /\ up >= 4 /\ ~function_match.ok THEN up - 4 ELSE up

\* lines 120-154: one iteration of the loop over code.split('\n')
ScanLine ==
    /\ pc = "scan"
    /\ i <= Len(SourceLines(code))
    /\ LET line == SourceLines(code)[i]
           function_match == _FUNCTION_REGEX_search(line)
           class_match == _CLASS_REGEX_search(line)
           var_match == _VAR_REGEX_search(line)
           array_match == _ARRAY_REGEX_search(line)
           brk == CountBrackets(line, brackets)
           out1 == IF class_match.ok
                   THEN stubs_string \o ClassEmission(class_match, current_level)
                   ELSE stubs_string
           last1 == IF class_match.ok THEN "class" ELSE last_match
           annotations == IF function_match.ok
                          THEN _get_function_annotations(function_match, classes, current_level)
                          ELSE [raised |-> FALSE, value |-> <<>>]
           out2 == out1 \o annotations.value
           last2 == IF function_match.ok THEN "function" ELSE last1
           is_var == VarGuard(var_match, brk, last2)
           out3 == IF is_var THEN out2 \o VarEmission(var_match, classes, current_level) ELSE out2
           last3 == IF is_var THEN "var" ELSE last2
           out4 == IF array_match.ok
                   THEN out3 \o ArrayEmission(array_match, classes, current_level)
                   ELSE out3
           last4 == IF array_match.ok THEN "array" ELSE last3
       IN IF annotations.raised
          THEN /\ pc' = "raised"
               /\ exc' = "ValueError"
               /\ brackets' = brk
               /\ stubs_string' = out1
               /\ last_match' = last1
               /\ UNCHANGED <<current_level, i>>
          ELSE /\ pc' = "scan"
               /\ exc' = exc
               /\ brackets' = brk
               /\ stubs_string' = out4
               /\ last_match' = last4
               /\ current_level' = NextLevel(line, function_match, current_level)
               /\ i' = i + 1
    /\ UNCHANGED <<path, format_command, HAS_BLACK, fs, stubs_path, code, classes, result,
                   spawned, arg_string, arg_classes, ret>>

\* lines 156-157
WriteStubs ==
    /\ pc = "scan"
    /\ i > Len(SourceLines(code))
    /\ fs' = [fs EXCEPT ![stubs_path] = Some(stubs_string)]
    /\ pc' = "format"
    /\ UNCHANGED <<path, format_command, HAS_BLACK, stubs_path, code, stubs_string,
                   current_level, brackets, classes, last_match, i, result, spawned, exc,
                   arg_string, arg_classes, ret>>

\* lines 159-160
EffectiveCommand ==
    IF format_command = None /\ HAS_BLACK
    THEN Some(<<"black", " ", "{name}">>)
    ELSE format_command

\* line 162 false: the function falls off its end
FormatNone ==
    /\ pc = "format"
    /\ EffectiveCommand = None
    /\ pc' = "done"
    /\ result' = ReturnNone
    /\ UNCHANGED <<path, format_command, HAS_BLACK, fs, stubs_path, code, stubs_string,
                   current_level, brackets, classes, last_match, i, spawned, exc,
                   arg_string, arg_classes, ret>>

\* lines 163-166: str.format raised KeyError, which is passed over
FormatKeyError ==
    /\ pc = "format"
    /\ EffectiveCommand # None
    /\ StrFormat(EffectiveCommand.val, stubs_path).raised = "KeyError"
    /\ pc' = "done"
    /\ result' = ReturnNone
    /\ UNCHANGED <<path, format_command, HAS_BLACK, fs, stubs_path, code, stubs_string,
                   current_level, brackets, classes, last_match, i, spawned, exc,
                   arg_string, arg_classes, ret>>

\* lines 163-164: str.format raised an exception other than KeyError
FormatRaise ==
    /\ pc = "format"
    /\ EffectiveCommand # None
    /\ StrFormat(EffectiveCommand.val, stubs_path).raised = "IndexError"
    /\ pc' = "raised"
    /\ exc' = "IndexError"
    /\ UNCHANGED <<path, format_command, HAS_BLACK, fs, stubs_path, code, stubs_string,
                   current_level, brackets, classes, last_match, i, result, spawned,
                   arg_string, arg_classes, ret>>

\* lines 167-168: the command is run and its CompletedProcess returned
FormatRun ==
    /\ pc = "format"
    /\ EffectiveCommand # None
    /\ StrFormat(EffectiveCommand.val, stubs_path).raised = ""
    /\ LET argv == Split(StrFormat(EffectiveCommand.val, stubs_path).value, " ")
       IN /\ spawned' = Some(argv)
          /\ result' = CompletedProcess(argv)
    /\ pc' = "done"
    /\ UNCHANGED <<path, format_command, HAS_BLACK, fs, stubs_path, code, stubs_string,
                   current_level, brackets, classes, last_match, i, exc,
                   arg_string, arg_classes, ret>>

Next ==
    \/ ReadSource
    \/ ScanLine
    \/ WriteStubs
    \/ FormatNone
    \/ FormatKeyError
    \/ FormatRaise
    \/ FormatRun

Spec == Init /\ [][Next]_vars

-----------------------------------------------------------------------------
(* _get_name on its own: the inputs are drawn in the initial state *)

InitGetName ==
    /\ pc = "get_name"
    /\ arg_string \in TypeStrings
    /\ arg_classes \in ClassLists
    /\ ret = <<>>
    /\ path = P_cpp
    /\ format_command = None
    /\ HAS_BLACK = FALSE
    /\ fs = [q \in Files |-> None]
    /\ stubs_path = <<>>
    /\ code = <<>>
    /\ stubs_string = <<>>
    /\ current_level = 0
    /\ brackets = <<0, 0>>
    /\ classes = <<>>
    /\ last_match = ""
    /\ i = 0
    /\ result = Unset
    /\ spawned = None
    /\ exc = ""

Call_get_name ==
    /\ pc = "get_name"
    /\ ret' = _get_name(arg_string, arg_classes)
    /\ pc' = "returned"
    /\ UNCHANGED <<path, format_command, HAS_BLACK, fs, stubs_path, code, stubs_string,
                   current_level, brackets, classes, last_match, i, result, spawned, exc,
                   arg_string, arg_classes>>

NextGetName == Call_get_name

SpecGetName == InitGetName /\ [][NextGetName]_vars

-----------------------------------------------------------------------------
(* Vocabulary of the properties *)

\* an iteration of the scan loop is about to run / has run to its end
Scanning == pc = "scan" /\ i <= Len(SourceLines(code))
ScanCompleted == Scanning /\ pc' = "scan"
CurrentLine == SourceLines(code)[i]
\* the text the step appended to the output buffer
Emitted == SubSeq(stubs_string', Len(stubs_string) + 1, Len(stubs_string'))
AppendOnly == SubSeq(stubs_string', 1, Len(stubs_string)) = stubs_string

\* the primitive table of the type mapper, as the specification gives it
Primitives == {"void", "bool", "char", "wchar_t", "short", "int", "long", "__int64",
               "size_t", "ssize_t", "float", "double"}
ExpectedScalar(k) ==
    CASE k = "void" -> "None"
      [] k = "bool" -> "bool"
      [] k \in {"char", "wchar_t"} -> "str"
      [] k \in {"short", "int", "long", "__int64", "size_t", "ssize_t"} -> "int"
      [] k \in {"float", "double"} -> "float"

\* resolve(token, knownClassNames): primitive first, then known class, else the unknown marker
Resolve(token, K) ==
    IF Len(token) = 1 /\ token[1] \in Primitives THEN <<ExpectedScalar(token[1])>>
    ELSE IF token \in K THEN token
    ELSE <<"typing", ".", "Any">>

\* the names N with `class N {` anywhere in the text c
DeclaredClassNames(c) ==
    {<<c[Run(c, k + 1, "IsSpaceNL")]>> : k \in {m \in 1..Len(c) : GetClassesAt(c, m)}}

\* brace nesting reached at the end of the text s, starting from depth d
RECURSIVE Depth(_, _)
Depth(s, d) ==
    IF s = <<>> THEN d
    ELSE Depth(Tail(s), IF s[1] = "{" THEN d + 1
                        ELSE IF s[1] = "}" /\ d > 0 THEN d - 1 ELSE d)

\* the number of { opened and not yet closed on the lines before line n
NestingLevel(lines, n) == Depth(Join(SubSeq(lines, 1, n - 1), "\n"), 0)

\* the declaration lines of an emitted text: not blank, not the `...` body of a class
DeclarationLines(text) ==
    {l \in {Split(text, "\n")[k] : k \in 1..Len(Split(text, "\n"))} :
        Strip(l) # <<>> /\ Strip(l) # <<"...">>}
Indent(l) == Run(l, 1, "IsSpace") - 1

RECURSIVE Concat(_)
Concat(parts) == IF parts = <<>> THEN <<>> ELSE parts[1] \o Concat(Tail(parts))

RECURSIVE JoinText(_, _)
JoinText(parts, sep) ==
    IF parts = <<>> THEN <<>>
    ELSE IF Len(parts) = 1 THEN parts[1]
    ELSE parts[1] \o sep \o JoinText(Tail(parts), sep)

\* the parameters of a matched signature, split on commas
ParametersOf(fm) == Split(SubSeq(fm.g3, 2, Len(fm.g3) - 1), ",")

\* `name: mapped_type` of one parameter: split on the last whitespace, sigils stripped
ParameterEntry(parameter, K) ==
    LET q == Strip(parameter)
        S == {k \in 1..Len(q) : IsSpace(q[k])}
        k == IF S = {} THEN 0 ELSE CHOOSE m \in S : \A n \in S : n <= m
    IN _POINTER_OR_ADDRESS_sub(SubSeq(q, k + 1, Len(q))) \o <<":", " ">>
       \o Resolve(_POINTER_OR_ADDRESS_sub(Strip(SubSeq(q, 1, k - 1))), K)

ParameterEntries(fm, K) ==
    [k \in 1..Len(ParametersOf(fm)) |-> ParameterEntry(ParametersOf(fm)[k], K)]

\* def <Name>(<p1>: <t1>, <p2>: <t2>, ...) -> <mapped_return>: ... and a blank line
ClaimedDef(fm, K, level) ==
    Spaces(level) \o <<"def", " ">> \o fm.g2 \o <<"(">>
    \o JoinText(ParameterEntries(fm, K), <<",", " ">>)
    \o <<")", " ", "->", " ">> \o Resolve(fm.g1, K) \o <<":", " ", "...", "\n", "\n">>

\* the same declaration with every entry followed by a comma and no blank after it
CommaDef(fm, K, level) ==
    Spaces(level) \o <<"def", " ">> \o fm.g2 \o <<"(">>
    \o Concat([k \in 1..Len(ParametersOf(fm)) |-> ParameterEntries(fm, K)[k] \o <<",">>])
    \o <<")", " ", "->", " ">> \o Resolve(fm.g1, K) \o <<":", " ", "...", "\n", "\n">>

\* `    return <identifier>;`
IsReturnLine(l) ==
    LET t == Strip(l)
        b == Run(t, 2, "IsSpace")
    IN /\ Len(t) >= 4
       /\ t[1] = "return"
       /\ b > 2
       /\ WordAt(t, b)
       /\ Run(t, b + 1, "IsSpace") = Len(t)
       /\ t[Len(t)] = ";"

\* <Type> [*&]<Name>[<Size>]; or <Type> [*&]<Name>[<Size>] = {...};
IsArrayDeclaration(l) ==
    LET b == Run(l, 2, "IsSpace")
        c == Run(l, b, "IsSigil")
        rest == Strip(SubSeq(l, c + 4, Len(l)))
    IN /\ WordAt(l, 1)
       /\ b > 2
       /\ WordAt(l, c)
       /\ TokAt(l, c + 1, "[")
       /\ WordAt(l, c + 2)
       /\ TokAt(l, c + 3, "]")
       /\ \/ rest = <<";">>
          \/ /\ Len(rest) >= 4
             /\ rest[1] = "="
             /\ Strip(Tail(rest))[1] = "{"
             /\ rest[Len(rest) - 1] = "}"
             /\ rest[Len(rest)] = ";"
ArrayType(l) == <<l[1]>>
ArrayName(l) == <<l[Run(l, Run(l, 2, "IsSpace"), "IsSigil")]>>

-----------------------------------------------------------------------------
(* Properties *)

\* C1: the scan never raises: no source text makes generate_stubs leave the loop
\*     over the lines with an exception.
C1_ScanNeverRaises == exc # "ValueError"

\* C2: every emitted declaration is appended in source order and indented by 4
\*     columns per level of brace nesting of its source line, the nesting level
\*     being the number of { opened and not yet closed on earlier lines.
C2_IndentFollowsNesting ==
    [][ScanCompleted =>
          /\ AppendOnly
          /\ \A l \in DeclarationLines(Emitted) :
                 Indent(l) = 4 * NestingLevel(SourceLines(code), i)]_vars

\* C3: a line matching the function-signature pattern (and no other pattern) emits
\*     exactly `def <Name>(<p1>: <t1>, <p2>: <t2>, ...) -> <mapped_return>: ...`
\*     and a blank line at the current indent.
C3_FunctionEmission ==
    [][(/\ ScanCompleted
        /\ _FUNCTION_REGEX_search(CurrentLine).ok
        /\ ~_CLASS_REGEX_search(CurrentLine).ok
        /\ ~_ARRAY_REGEX_search(CurrentLine).ok
        /\ last_match' = "function")
       => Emitted = ClaimedDef(_FUNCTION_REGEX_search(CurrentLine),
                               DeclaredClassNames(code), current_level)]_vars

\* C4: scanning a line `return <identifier>;` never emits a variable declaration:
\*     the iteration completes, appends nothing and leaves the last construct as
\*     it was, whatever was scanned before and whatever the brace counts are.
C4_ReturnNeverEmitsVariable ==
    [][(Scanning /\ IsReturnLine(CurrentLine))
       => (pc' = "scan" /\ stubs_string' = stubs_string /\ last_match' = last_match)]_vars

\* a return line has been scanned in the body of a matched function, after a local
\* array, with unequal brace counts and a last construct that is not the function
C4_Witness ==
    /\ pc = "scan"
    /\ i = 4
    /\ SourceLines(code)[1] = L_fnvar
    /\ SourceLines(code)[2] = L_array_init
    /\ IsReturnLine(SourceLines(code)[3])
    /\ last_match = "array"
    /\ brackets[1] # brackets[2]

\* C5: the known class names are those of the whole source, fixed before the first
\*     line is scanned and unchanged by the scan, and every emitted function
\*     parameter, return type, variable and array type that names a known class
\*     (and is not a primitive spelling) is that class name, wherever the class
\*     is declared: each iteration appends the declarations of its line with the
\*     types resolved against the class names of the whole source.
C5_ClassesFixedAndResolved ==
    [][/\ pc = "scan" =>
            /\ classes' = classes
            /\ {classes[k] : k \in 1..Len(classes)} = DeclaredClassNames(code)
       /\ ScanCompleted =>
            LET K == DeclaredClassNames(code)
                fm == _FUNCTION_REGEX_search(CurrentLine)
                cm == _CLASS_REGEX_search(CurrentLine)
                vm == _VAR_REGEX_search(CurrentLine)
                am == _ARRAY_REGEX_search(CurrentLine)
                last2 == IF fm.ok THEN "function" ELSE IF cm.ok THEN "class" ELSE last_match
            IN Emitted =
                 (IF cm.ok THEN ClassEmission(cm, current_level) ELSE <<>>)
                 \o (IF fm.ok THEN CommaDef(fm, K, current_level) ELSE <<>>)
                 \o (IF VarGuard(vm, brackets', last2)
                     THEN Spaces(current_level) \o vm.g2 \o <<":", " ">>
                          \o Resolve(vm.g1, K) \o <<"\n">>
                     ELSE <<>>)
                 \o (IF am.ok
                     THEN Spaces(current_level) \o am.g2
                          \o <<":", " ", "_MutableCollection", "[">>
                          \o Resolve(am.g1, K) \o <<"]", "\n">>
                     ELSE <<>>)]_vars

\* `void hello(Human *human)` has been scanned before the line `class Human {`
\* and was emitted with the parameter typed Human and the return type None
C5_Witness ==
    /\ pc = "scan"
    /\ i = 2
    /\ SourceLines(code)[1] = L_hello
    /\ \E k \in 2..Len(SourceLines(code)) : SourceLines(code)[k] = L_class
    /\ stubs_string = _BASE_STRING \o <<"def", " ", "hello", "(", "human", ":", " ", "Human",
                                        ",", ")", " ", "->", " ", "None", ":", " ", "...",
                                        "\n", "\n">>

\* C6: _get_name returns, for every token and every list of known class names,
\*     the scalar name of a primitive spelling (even when the token is also a known
\*     class name), else the token itself when it is a known class name, else
\*     typing.Any.
C6_GetNamePrecedence ==
    pc = "returned" =>
        ret = Resolve(arg_string, {arg_classes[k] : k \in 1..Len(arg_classes)})

\* _get_name has returned str for the token char although char is a known class name
C6_Witness ==
    /\ pc = "returned"
    /\ arg_string = <<"char">>
    /\ InList(<<"char">>, arg_classes)
    /\ ret = <<"str">>

\* C7: an array declaration line, with or without an initializer, emits exactly
\*     one line `<Name>: _MutableCollection[<mapped_type>]` at the current indent,
\*     sets the last construct to array and leaves the indent level as it was.
C7_ArrayDeclarationEmits ==
    [][(Scanning /\ IsArrayDeclaration(CurrentLine))
       => /\ pc' = "scan"
          /\ Emitted = Spaces(current_level) \o ArrayName(CurrentLine)
                       \o <<":", " ", "_MutableCollection", "[">>
                       \o Resolve(ArrayType(CurrentLine), DeclaredClassNames(code))
                       \o <<"]", "\n">>
          /\ last_match' = "array"
          /\ current_level' = current_level]_vars

\* C8: when the supplied format command has no {name} placeholder, the call ends
\*     with the stub file written, no subprocess launched, no exception, and None
\*     returned.
C8_NoPlaceholderSkipsFormatting ==
    (/\ pc \in {"done", "raised"}
     /\ exc # "ValueError"
     /\ format_command # None
     /\ ~HasTok(format_command.val, "{name}"))
    => /\ pc = "done"
       /\ fs[stubs_path] = Some(stubs_string)
       /\ spawned = None
       /\ result = ReturnNone

\* C9 as stated: a line matching the variable pattern emits `<name>: <mapped_type>`
\*     and sets the last construct to var iff its captured name (the second
\*     capture) is not `return` and the brace counts are equal or the last
\*     construct is not function.
C9_GuardOnCapturedName ==
    [][ScanCompleted /\ _VAR_REGEX_search(CurrentLine).ok =>
          LET fm == _FUNCTION_REGEX_search(CurrentLine)
              cm == _CLASS_REGEX_search(CurrentLine)
              vm == _VAR_REGEX_search(CurrentLine)
              am == _ARRAY_REGEX_search(CurrentLine)
              last2 == IF fm.ok THEN "function" ELSE IF cm.ok THEN "class" ELSE last_match
              guard == /\ vm.g2 # <<"return">>
                       /\ (brackets'[1] = brackets'[2] \/ last2 # "function")
          IN /\ Emitted =
                  (IF cm.ok THEN ClassEmission(cm, current_level) ELSE <<>>)
                  \o (IF fm.ok
                      THEN _get_function_annotations(fm, classes, current_level).value
                      ELSE <<>>)
                  \o (IF guard
                      THEN Spaces(current_level) \o vm.g2 \o <<":", " ">>
                           \o _get_name(vm.g1, classes) \o <<"\n">>
                      ELSE <<>>)
                  \o (IF am.ok THEN ArrayEmission(am, classes, current_level) ELSE <<>>)
             /\ last_match' = IF am.ok THEN "array" ELSE IF guard THEN "var" ELSE last2]_vars

\* C9 as amended: the same, the test being on the captured type token (the first
\*     capture); the brace counts include the current line and the last construct
\*     reflects a class or function match on the same line.
C9_GuardOnCapturedType ==
    [][ScanCompleted /\ _VAR_REGEX_search(CurrentLine).ok =>
          LET fm == _FUNCTION_REGEX_search(CurrentLine)
              cm == _CLASS_REGEX_search(CurrentLine)
              vm == _VAR_REGEX_search(CurrentLine)
              am == _ARRAY_REGEX_search(CurrentLine)
              last2 == IF fm.ok THEN "function" ELSE IF cm.ok THEN "class" ELSE last_match
              guard == /\ vm.g1 # <<"return">>
                       /\ (brackets'[1] = brackets'[2] \/ last2 # "function")
          IN /\ Emitted =
                  (IF cm.ok THEN ClassEmission(cm, current_level) ELSE <<>>)
                  \o (IF fm.ok
                      THEN _get_function_annotations(fm, classes, current_level).value
                      ELSE <<>>)
                  \o (IF guard
                      THEN Spaces(current_level) \o vm.g2 \o <<":", " ">>
                           \o _get_name(vm.g1, classes) \o <<"\n">>
                      ELSE <<>>)
                  \o (IF am.ok THEN ArrayEmission(am, classes, current_level) ELSE <<>>)
             /\ last_match' = IF am.ok THEN "array" ELSE IF guard THEN "var" ELSE last2]_vars

\* a line that matches both the function and the variable pattern has been scanned
\* inside an open brace: the variable was suppressed by the same-line function match
C9_Witness ==
    /\ pc = "scan"
    /\ i > 1
    /\ _VAR_REGEX_search(SourceLines(code)[i - 1]).ok
    /\ _FUNCTION_REGEX_search(SourceLines(code)[i - 1]).ok
    /\ brackets[1] # brackets[2]
    /\ last_match = "function"

\* C10: generate_stubs never writes to the file it reads: the stub path differs
\*      from the input path and the source file keeps its content.
C10_SourceNeverWritten ==
    pc \in {"format", "done"} => (stubs_path # path /\ fs[path] = Some(code))

=============================================================================
